---- MODULE Spec2Model ----
(***************************************************************************)
(* A model of the SQL query-writer scaffold: the DuckDB loader             *)
(* (db/bike_store.py: BikeStoreDb._create_db, get_schema_info) and the     *)
(* QueryWriter agent (agent.py: __init__, generate_query, _format_schema). *)
(*                                                                         *)
(* Python strings are sequences of one-character strings, so that          *)
(* lower(), endswith(), splitext(), join() and the f-strings are computed  *)
(* character by character.  A dict is a sequence of [key, value] entries   *)
(* in insertion order.                                                     *)
(***************************************************************************)
EXTENDS Naturals, Sequences, FiniteSets

VARIABLES
    db,               \* the DuckDB file at db_path: [exists, tables]
    openConns,        \* connections opened by a call and not closed by it
    writers,          \* the QueryWriter objects constructed so far
    clients,          \* number of backend clients get_ollama_client created
    backendRequests,  \* number of requests sent to the generation backend
    FEW_SHOT_EXAMPLES,\* the module-level example bank of agent.py
    hist,             \* per writer: first text _format_schema returned, and
                      \* whether generate_query was called since
    last              \* the last call: its operation, input and outcome

vars == <<db, openConns, writers, clients, backendRequests,
          FEW_SHOT_EXAMPLES, hist, last>>

----------------------------------------------------------------------------
(* Bounds of the model. *)

MaxFiles == 2      \* entries of the download directory in one listing
MaxOpen == 2       \* connections left open before further calls are cut off
MaxWriters == 1    \* QueryWriter objects alive at once

----------------------------------------------------------------------------
(* Strings. *)

UpperToLower ==
    [c \in {"A", "B", "C", "S", "V"} |->
        CASE c = "A" -> "a" [] c = "B" -> "b" [] c = "C" -> "c"
          [] c = "S" -> "s" [] c = "V" -> "v"]

\* str.lower on one character
LowerChar(c) == IF c \in DOMAIN UpperToLower THEN UpperToLower[c] ELSE c

\* str.lower
lower(s) == [i \in 1..Len(s) |-> LowerChar(s[i])]

\* str.endswith
endswith(s, suffix) ==
    /\ Len(s) >= Len(suffix)
    /\ SubSeq(s, Len(s) - Len(suffix) + 1, Len(s)) = suffix

\* str.rfind of one character: the last index holding c, 0 when there is none
rfind(s, c) ==
    IF \E i \in 1..Len(s) : s[i] = c
    THEN CHOOSE i \in 1..Len(s) :
            /\ s[i] = c
            /\ \A j \in (i+1)..Len(s) : s[j] # c
    ELSE 0

\* os.path.splitext(p)[0] for a bare file name: the extension starts at the
\* last dot, unless only dots precede it
splitext_root(p) ==
    LET dot == rfind(p, ".")
    IN  IF dot > 0 /\ (\E k \in 1..(dot - 1) : p[k] # ".")
        THEN SubSeq(p, 1, dot - 1)
        ELSE p

\* str.join
RECURSIVE join(_, _)
join(sep, parts) ==
    IF Len(parts) = 0 THEN << >>
    ELSE IF Len(parts) = 1 THEN parts[1]
    ELSE parts[1] \o sep \o join(sep, Tail(parts))

DOT_CSV == <<".", "c", "s", "v">>

----------------------------------------------------------------------------
(* The file system: the names os.listdir may return, and what            *)
(* read_csv_auto detects in each file.                                    *)

BIGINT == <<"B", "I", "G", "I", "N", "T">>
VARCHAR == <<"V", "A", "R", "C", "H", "A", "R">>

Column(n, t) == [name |-> n, type |-> t]

FileNames ==
    { <<"a", ".", "c", "s", "v">>,
      <<"a", ".", "C", "S", "V">>,
      <<"b", ".", "c", "s", "v">>,
      <<"n", ".", "t", "x", "t">> }

\* read_csv_auto(fpath): the columns detected in the file; its rows are
\* identified by the file they come from
read_csv_auto(fname) ==
    [cols |->
        CASE fname = <<"a", ".", "c", "s", "v">> ->
                <<Column(<<"x">>, BIGINT), Column(<<"y">>, VARCHAR)>>
          [] fname = <<"a", ".", "C", "S", "V">> ->
                <<Column(<<"y">>, VARCHAR)>>
          [] fname = <<"b", ".", "c", "s", "v">> ->
                <<Column(<<"y">>, VARCHAR), Column(<<"x">>, BIGINT)>>
          [] OTHER -> <<Column(<<"x">>, BIGINT)>>,
     rows |-> fname]

\* os.listdir(download_path): the entries of a directory, in any order
RECURSIVE ListingsOfLen(_)
ListingsOfLen(n) ==
    IF n = 0 THEN { << >> }
    ELSE { Append(l, f) : l \in ListingsOfLen(n - 1), f \in FileNames }

Listings ==
    { l \in UNION { ListingsOfLen(n) : n \in 0..MaxFiles } :
        \A i, j \in 1..Len(l) : i # j => l[i] # l[j] }

----------------------------------------------------------------------------
(* DuckDB: a database file holds tables in catalog order.                  *)

IdentChars == {"a", "b", "n", "x", "y", "A", "B"}

\* An unquoted identifier interpolated into a statement parses as one table
\* name only when it is a single word
IsPlainIdentifier(name) ==
    /\ Len(name) > 0
    /\ \A i \in 1..Len(name) : name[i] \in IdentChars

\* Catalog lookup is case-insensitive
HasTable(tables, name) ==
    \E i \in 1..Len(tables) : lower(tables[i].name) = lower(name)

LookupTable(tables, name) ==
    tables[CHOOSE i \in 1..Len(tables) : lower(tables[i].name) = lower(name)]

\* duckdb.connect(database=db_path, read_only=False) creates a missing file
connect_rw(d) == [exists |-> TRUE, tables |-> d.tables]

NoFile == [exists |-> FALSE, tables |-> << >>]

\* A database that was not loaded by _create_db: one table whose name needs
\* quoting
QuotedNameDb ==
    [exists |-> TRUE,
     tables |-> << [name |-> <<"a", " ", "b">>,
                    cols |-> <<Column(<<"x">>, BIGINT)>>,
                    rows |-> <<"a", " ", "b">>] >>]

----------------------------------------------------------------------------
(* BikeStoreDb._create_db *)

\* The loop of _create_db from entry i of the listing on.  created counts
\* the CREATE TABLE statements that made a table.
RECURSIVE create_db_loop(_, _, _, _, _)
create_db_loop(listing, i, tables, csv_count, created) ==
    IF i > Len(listing)
    THEN [outcome |-> "returned", error |-> "", tables |-> tables,
          csv_count |-> csv_count, created |-> created]
    ELSE
        LET fname == listing[i] IN
        IF endswith(lower(fname), DOT_CSV)
        THEN
            LET table_name == splitext_root(fname) IN
            IF ~IsPlainIdentifier(table_name)
            THEN [outcome |-> "raised", error |-> "ParserException",
                  tables |-> tables, csv_count |-> csv_count + 1,
                  created |-> created]
            ELSE IF HasTable(tables, table_name)
            THEN \* CREATE TABLE IF NOT EXISTS: nothing is done
                 create_db_loop(listing, i + 1, tables, csv_count + 1, created)
            ELSE create_db_loop(listing, i + 1,
                    Append(tables,
                        [name |-> table_name,
                         cols |-> read_csv_auto(fname).cols,
                         rows |-> read_csv_auto(fname).rows]),
                    csv_count + 1, created + 1)
        ELSE create_db_loop(listing, i + 1, tables, csv_count, created)

_create_db(listing) ==
    LET con == connect_rw(db)
        r == create_db_loop(listing, 1, con.tables, 0, 0)
    IN  /\ openConns < MaxOpen
        /\ db' = [exists |-> TRUE, tables |-> r.tables]
        \* con.close() is reached only when no statement raised
        /\ openConns' = IF r.outcome = "raised" THEN openConns + 1 ELSE openConns
        /\ last' = [op |-> "_create_db", arg |-> listing, writer |-> 0,
                    outcome |-> r.outcome, error |-> r.error,
                    value |-> r.csv_count, created |-> r.created,
                    requests |-> 0]
        /\ UNCHANGED <<writers, clients, backendRequests, FEW_SHOT_EXAMPLES, hist>>

----------------------------------------------------------------------------
(* get_schema_info *)

\* schema_info[key] = value on a dict kept in insertion order
DictSet(d, key, value) ==
    IF \E i \in 1..Len(d) : d[i].key = key
    THEN [i \in 1..Len(d) |->
            IF d[i].key = key THEN [key |-> key, value |-> value] ELSE d[i]]
    ELSE Append(d, [key |-> key, value |-> value])

\* con.execute(f"DESCRIBE {table_name}").fetchall() mapped to descriptors
describe(tables, table_name) ==
    LET columns == LookupTable(tables, table_name).cols
    IN  [i \in 1..Len(columns) |->
            [name |-> columns[i].name, type |-> columns[i].type]]

\* The loop over SHOW TABLES from row i on
RECURSIVE schema_info_loop(_, _, _)
schema_info_loop(tables, i, schema_info) ==
    IF i > Len(tables)
    THEN [outcome |-> "returned", error |-> "", value |-> schema_info,
          leaked |-> 0]
    ELSE
        LET table_name == tables[i].name IN
        IF ~IsPlainIdentifier(table_name)
        THEN [outcome |-> "raised", error |-> "ParserException",
              value |-> << >>, leaked |-> 1]
        ELSE schema_info_loop(tables, i + 1,
                DictSet(schema_info, table_name, describe(tables, table_name)))

\* get_schema_info(db_path) on database d
schema_info_of(d) ==
    IF ~d.exists
    THEN \* duckdb.connect(read_only=True) raises: no connection was opened
         [outcome |-> "raised", error |-> "IOException", value |-> << >>,
          leaked |-> 0]
    ELSE schema_info_loop(d.tables, 1, << >>)

get_schema_info ==
    LET r == schema_info_of(db)
    IN  /\ openConns < MaxOpen
        /\ openConns' = openConns + r.leaked
        /\ last' = [op |-> "get_schema_info", arg |-> << >>, writer |-> 0,
                    outcome |-> r.outcome, error |-> r.error,
                    value |-> r.value, created |-> 0, requests |-> 0]
        /\ UNCHANGED <<db, writers, clients, backendRequests,
                       FEW_SHOT_EXAMPLES, hist>>

----------------------------------------------------------------------------
(* QueryWriter *)

\* The questions a caller may pass: the empty string and a non-empty one
Prompts == { << >>, <<"q">> }

\* A variant of __init__ that catches the introspection error and goes on
\* with an empty catalog
QueryWriter__init__default_catalog ==
    LET r == schema_info_of(db)
        schema == IF r.outcome = "raised" THEN << >> ELSE r.value
    IN  /\ Len(writers) < MaxWriters
        /\ openConns < MaxOpen
        /\ openConns' = openConns + r.leaked
        /\ writers' = Append(writers, [schema |-> schema, client |-> clients + 1])
        /\ clients' = clients + 1
        /\ hist' = Append(hist,
                [formatted |-> FALSE, first |-> << >>, between |-> FALSE])
        /\ last' = [op |-> "__init__", arg |-> << >>,
                    writer |-> Len(writers) + 1,
                    outcome |-> r.outcome, error |-> r.error,
                    value |-> schema, created |-> 0, requests |-> 0]
        /\ UNCHANGED <<db, backendRequests, FEW_SHOT_EXAMPLES>>

\* QueryWriter.__init__(db_path): get_schema_info, then get_ollama_client
\* and get_model_name; an exception of get_schema_info leaves __init__ at
\* once
QueryWriter__init__ ==
    LET r == schema_info_of(db)
    IN  /\ Len(writers) < MaxWriters
        /\ openConns < MaxOpen
        /\ openConns' = openConns + r.leaked
        /\ IF r.outcome = "raised"
           THEN /\ UNCHANGED <<writers, clients, hist>>
                /\ last' = [op |-> "__init__", arg |-> << >>, writer |-> 0,
                            outcome |-> "raised", error |-> r.error,
                            value |-> << >>, created |-> 0, requests |-> 0]
           ELSE /\ writers' = Append(writers,
                        [schema |-> r.value, client |-> clients + 1])
                /\ clients' = clients + 1
                /\ hist' = Append(hist,
                        [formatted |-> FALSE, first |-> << >>,
                         between |-> FALSE])
                /\ last' = [op |-> "__init__", arg |-> << >>,
                            writer |-> Len(writers) + 1,
                            outcome |-> "returned", error |-> "",
                            value |-> r.value, created |-> 0, requests |-> 0]
        /\ UNCHANGED <<db, backendRequests, FEW_SHOT_EXAMPLES>>

\* A variant of generate_query that passes the backend's reply through
\* after strip(), here a reply of blanks
generate_query_pass_through(w, prompt) ==
    /\ backendRequests' = backendRequests + 1
    /\ hist' = [hist EXCEPT ![w].between = hist[w].formatted]
    /\ last' = [op |-> "generate_query", arg |-> prompt, writer |-> w,
                outcome |-> "returned", error |-> "",
                value |-> << >>, created |-> 0,
                requests |-> backendRequests' - backendRequests]
    /\ UNCHANGED <<db, openConns, writers, clients, FEW_SHOT_EXAMPLES>>

\* A variant of generate_query that records the question in self.schema
\* before it raises
generate_query_caching(w, prompt) ==
    /\ backendRequests' = backendRequests
    /\ writers' = [writers EXCEPT
                      ![w].schema = DictSet(writers[w].schema, prompt, << >>)]
    /\ hist' = [hist EXCEPT ![w].between = hist[w].formatted]
    /\ last' = [op |-> "generate_query", arg |-> prompt, writer |-> w,
                outcome |-> "raised", error |-> "NotImplementedError",
                value |-> << >>, created |-> 0,
                requests |-> backendRequests' - backendRequests]
    /\ UNCHANGED <<db, openConns, clients, FEW_SHOT_EXAMPLES>>

\* QueryWriter.generate_query(prompt) on writer w: the body is the raise
\* statement alone
generate_query(w, prompt) ==
    /\ backendRequests' = backendRequests   \* self.client.chat is not called
    /\ hist' = [hist EXCEPT ![w].between = hist[w].formatted]
    /\ last' = [op |-> "generate_query", arg |-> prompt, writer |-> w,
                outcome |-> "raised", error |-> "NotImplementedError",
                value |-> << >>, created |-> 0,
                requests |-> backendRequests' - backendRequests]
    /\ UNCHANGED <<db, openConns, writers, clients, FEW_SHOT_EXAMPLES>>

\* f"{col['name']} ({col['type']})"
format_column(col) == col.name \o <<" ", "(">> \o col.type \o <<")">>

\* f"Table {table_name}: {cols}"
format_table(table_name, columns) ==
    <<"T", "a", "b", "l", "e", " ">> \o table_name \o <<":", " ">>
        \o join(<<",", " ">>,
                [i \in 1..Len(columns) |-> format_column(columns[i])])

\* A variant of the text that ends every table's line with a newline
RECURSIVE format_schema_text_newline_each(_)
format_schema_text_newline_each(schema) ==
    IF Len(schema) = 0 THEN << >>
    ELSE format_table(schema[1].key, schema[1].value) \o <<"\n">>
            \o format_schema_text_newline_each(Tail(schema))

\* The text _format_schema builds from self.schema
format_schema_text(schema) ==
    join(<<"\n">>,
         [i \in 1..Len(schema) |-> format_table(schema[i].key, schema[i].value)])

\* A variant of _format_schema that takes the tables out of self.schema as
\* it renders them
_format_schema_consuming(w) ==
    LET text == format_schema_text(writers[w].schema)
    IN  /\ writers' = [writers EXCEPT ![w].schema = << >>]
        /\ hist' = [hist EXCEPT
                        ![w].formatted = TRUE,
                        ![w].first = IF hist[w].formatted THEN hist[w].first
                                     ELSE text]
        /\ last' = [op |-> "_format_schema", arg |-> << >>, writer |-> w,
                    outcome |-> "returned", error |-> "", value |-> text,
                    created |-> 0, requests |-> 0]
        /\ UNCHANGED <<db, openConns, clients, backendRequests,
                       FEW_SHOT_EXAMPLES>>

\* QueryWriter._format_schema() on writer w
_format_schema(w) ==
    LET text == format_schema_text(writers[w].schema)
    IN  /\ hist' = [hist EXCEPT
                        ![w].formatted = TRUE,
                        ![w].first = IF hist[w].formatted THEN hist[w].first
                                     ELSE text]
        /\ last' = [op |-> "_format_schema", arg |-> << >>, writer |-> w,
                    outcome |-> "returned", error |-> "", value |-> text,
                    created |-> 0, requests |-> 0]
        /\ UNCHANGED <<db, openConns, writers, clients, backendRequests,
                       FEW_SHOT_EXAMPLES>>

----------------------------------------------------------------------------
(* The specification *)

\* The six question/query pairs of the example bank, by their questions
ExampleBank ==
    << "How many products are in each category?",
       "What are the top 5 most expensive products?",
       "Which store has the most staff?",
       "What is the total revenue per year?",
       "List customers who have never placed an order.",
       "What is the average discount given per brand?" >>

Init ==
    /\ db \in {NoFile, QuotedNameDb}
    /\ openConns = 0
    /\ writers = << >>
    /\ clients = 0
    /\ backendRequests = 0
    /\ FEW_SHOT_EXAMPLES = ExampleBank
    /\ hist = << >>
    /\ last = [op |-> "none", arg |-> << >>, writer |-> 0,
               outcome |-> "returned", error |-> "", value |-> << >>,
               created |-> 0, requests |-> 0]

Next ==
    \/ \E listing \in Listings : _create_db(listing)
    \/ get_schema_info
    \/ QueryWriter__init__
    \/ \E w \in 1..Len(writers) : \E prompt \in Prompts : generate_query(w, prompt)
    \/ \E w \in 1..Len(writers) : _format_schema(w)

Spec == Init /\ [][Next]_vars

----------------------------------------------------------------------------
(* Helpers of the properties *)

startswith(s, prefix) ==
    /\ Len(s) >= Len(prefix)
    /\ SubSeq(s, 1, Len(prefix)) = prefix

\* Stands for the backquote character of a markdown fence
BACKQUOTE == "backquote"

\* A usable query: not empty, opening with SELECT or WITH, no code fence
ValidQuery(text) ==
    /\ Len(text) > 0
    /\ \/ startswith(text, <<"S", "E", "L", "E", "C", "T">>)
       \/ startswith(text, <<"W", "I", "T", "H">>)
    /\ \A i \in 1..Len(text) : text[i] # BACKQUOTE

\* The exceptions the raise statements of generate_query name
DeclaredErrors == {"NotImplementedError"}

\* The pieces of text between occurrences of the character sep
RECURSIVE SplitOn(_, _)
SplitOn(text, sep) ==
    IF \E i \in 1..Len(text) : text[i] = sep
    THEN LET k == CHOOSE i \in 1..Len(text) :
                    text[i] = sep /\ \A j \in 1..(i - 1) : text[j] # sep
         IN  <<SubSeq(text, 1, k - 1)>>
                \o SplitOn(SubSeq(text, k + 1, Len(text)), sep)
    ELSE <<text>>

\* '<name> (<type>)' of the first n columns, each after the first led by ', '
RECURSIVE ColumnList(_, _)
ColumnList(columns, n) ==
    IF n = 0 THEN << >>
    ELSE ColumnList(columns, n - 1)
            \o (IF n > 1 THEN <<",", " ">> ELSE << >>)
            \o columns[n].name \o <<" ", "(">> \o columns[n].type \o <<")">>

\* 'Table <table_name>: ' and the column list
TableLine(entry) ==
    <<"T", "a", "b", "l", "e", " ">> \o entry.key \o <<":", " ">>
        \o ColumnList(entry.value, Len(entry.value))

\* The descriptors of a table's columns, in the table's column order
Descriptors(table) ==
    [i \in 1..Len(table.cols) |->
        [name |-> table.cols[i].name, type |-> table.cols[i].type]]

LastWriterSchema == writers[last.writer].schema

----------------------------------------------------------------------------
(* The properties *)

C2_ExactlyOneRequest ==
    (last.op = "generate_query" /\ last.arg # << >>) => last.requests = 1

\* C3: generate_query with an empty question raises EmptyQuestion and sends
\* no request to the generation backend.
C3_EmptyQuestionFailsFast ==
    (last.op = "generate_query" /\ last.arg = << >>)
        => /\ last.outcome = "raised"
           /\ last.error = "EmptyQuestion"
           /\ last.requests = 0

\* C4: on every database, also one with no tables, get_schema_info returns a
\* mapping with exactly one key per table of the database, each mapped to the
\* table's column descriptors in column order.
C4_SchemaInfoExact ==
    (last.op = "get_schema_info" /\ db.exists)
        => /\ last.outcome = "returned"
           /\ Len(last.value) = Len(db.tables)
           /\ \A i \in 1..Len(db.tables) :
                \E k \in 1..Len(last.value) :
                    /\ last.value[k].key = db.tables[i].name
                    /\ last.value[k].value = Descriptors(db.tables[i])

\* C5: _format_schema returns one line per table in catalog order, each
\* 'Table <table_name>: ' followed by the '<name> (<type>)' of its columns
\* joined by ', ', the lines joined by single newlines with none at the end;
\* an empty catalog gives the empty string.
C5_FormatSchemaText ==
    last.op = "_format_schema"
        => /\ last.outcome = "returned"
           /\ IF LastWriterSchema = << >>
              THEN last.value = << >>
              ELSE SplitOn(last.value, "\n")
                      = [i \in 1..Len(LastWriterSchema) |->
                            TableLine(LastWriterSchema[i])]

C5_Witness ==
    /\ last.op = "_format_schema"
    /\ Len(LastWriterSchema) = 2
    /\ \E i \in 1..2 : Len(LastWriterSchema[i].value) = 2
    /\ Len(last.value) > 0

\* C6: every _format_schema call on a QueryWriter returns the text its first
\* _format_schema call returned, whatever calls came in between.
C6_FormatDeterministic ==
    last.op = "_format_schema" => last.value = hist[last.writer].first

C6_Witness ==
    /\ last.op = "_format_schema"
    /\ hist[last.writer].between
    /\ LastWriterSchema # << >>

\* C7: a get_schema_info call leaves no connection it opened open, whether
\* it returns or raises.
C7_ConnectionReleased ==
    [][last'.op = "get_schema_info" => openConns' = openConns]_vars

\* C8: when schema introspection raises inside QueryWriter.__init__, the
\* error reaches the caller: no QueryWriter is added and no backend client
\* is created.
C8_ConstructionAborts ==
    [][(last'.op = "__init__" /\ last'.outcome = "raised")
            => (writers' = writers /\ clients' = clients)]_vars

C8_Witness ==
    /\ last.op = "__init__"
    /\ last.outcome = "raised"
    /\ last.error = "ParserException"
    /\ writers = << >>
    /\ clients = 0

\* C9: no step writes the catalog of a constructed QueryWriter or the
\* example bank.
C9_CatalogReadOnly ==
    [][/\ \A w \in 1..Len(writers) :
            /\ w <= Len(writers')
            /\ writers'[w].schema = writers[w].schema
       /\ FEW_SHOT_EXAMPLES' = FEW_SHOT_EXAMPLES]_vars

C9_Witness ==
    /\ last.op = "generate_query"
    /\ last.outcome = "raised"
    /\ hist[last.writer].formatted
    /\ LastWriterSchema # << >>
    /\ FEW_SHOT_EXAMPLES = ExampleBank

\* C10: after _create_db every file ending in .csv, in any case, has a table
\* named by the file name without its extension that holds the file's rows,
\* a file without that ending has no table, and the count reported is the
\* number of tables the run created.
C10_TablePerCsvFile ==
    last.op = "_create_db"
        => /\ last.outcome = "returned"
           /\ \A i \in 1..Len(last.arg) :
                LET fname == last.arg[i] IN
                IF endswith(lower(fname), DOT_CSV)
                THEN \E t \in 1..Len(db.tables) :
                        /\ db.tables[t].name = splitext_root(fname)
                        /\ db.tables[t].rows = fname
                ELSE \A t \in 1..Len(db.tables) : db.tables[t].rows # fname
           /\ last.value = last.created

====
